---- MODULE Spec2Model ----
(***************************************************************************)
(* Model of src/server.py: the snapshot fetcher open_latest_db and the two *)
(* query tools latest_articles and latest_videos.                          *)
(*                                                                         *)
(* Time is counted in whole hours since an epoch.  A timestamp is stored   *)
(* and compared as TEXT, the way SQLite does it: datetime() formats an     *)
(* instant as 'YYYY-MM-DD HH:MM:SS', modelled as the pair <<day, hour>>,   *)
(* and  published_at >= datetime('now', ?)  is a lexicographic comparison  *)
(* of two such texts.  The snapshot stores published_at in that format.    *)
(***************************************************************************)
EXTENDS Integers, Sequences, FiniteSets, TLC

VARIABLES
    db,       \* QSpec: the snapshot the connection is opened on
    now,      \* the clock, in hours since the epoch
    call,     \* QSpec: the last tool call, its arguments and what it returned
    remote,   \* Spec: what a GET of DB_URL answers at this moment
    files,    \* Spec: the temporary directory, file name -> content
    conns,    \* Spec: the open sqlite3 connections
    inv,      \* Spec: per running invocation, its locals and position
    fetched   \* Spec, history: number of GETs that succeeded so far

vars == <<db, now, call, remote, files, conns, inv, fetched>>

----------------------------------------------------------------------------
(* Bounds *)

MaxRows == 2       \* rows per table of a snapshot
MaxLimit == 3      \* largest limit argument tried
MaxFiles == 2      \* temporary files the directory may hold
NumWorkers == 2    \* invocations that may run at the same time

----------------------------------------------------------------------------
(* Values *)

NULL == "<NULL>"

VALID_CATEGORIES ==
    {"tech", "startups", "business", "politics", "finance", "miscellaneous"}

\* list(VALID_CATEGORIES), in some order
AllCategories ==
    <<"tech", "startups", "business", "politics", "finance", "miscellaneous">>

\* str.lower on the strings used as inputs
lower(c) ==
    CASE c = "TECH" -> "tech"
      [] c = "Politics" -> "politics"
      [] OTHER -> c

\* SQLite datetime(): the text of instant t
datetime(t) == <<t \div 24, t % 24>>

\* slip: only the date parts are compared
DateGE(a, b) == a[1] >= b[1]

\* SQLite >= on two datetime texts: lexicographic
TextGE(a, b) == a[1] > b[1] \/ (a[1] = b[1] /\ a[2] >= b[2])

\* SQL  x IN (list) : never true of NULL
SqlIn(x, list) == x # NULL /\ \E i \in 1..Len(list) : list[i] = x

----------------------------------------------------------------------------
(* ORDER BY published_at DESC LIMIT ? *)

\* index of the first row with the greatest published_at
FirstMax(rows) ==
    CHOOSE i \in 1..Len(rows) :
        /\ \A j \in 1..Len(rows) : TextGE(rows[i].published_at, rows[j].published_at)
        /\ \A j \in 1..(i-1) : ~ TextGE(rows[j].published_at, rows[i].published_at)

Remove(s, i) == SubSeq(s, 1, i-1) \o SubSeq(s, i+1, Len(s))

\* slip: no ORDER BY, the rows come in table order
OrderByRowid(rows) == rows

RECURSIVE OrderByPublishedDesc(_)
OrderByPublishedDesc(rows) ==
    IF rows = <<>> THEN <<>>
    ELSE LET i == FirstMax(rows)
         IN  <<rows[i]>> \o OrderByPublishedDesc(Remove(rows, i))

\* slip: one row too many
LimitOffByOne(rows, n) ==
    IF n < 0 \/ n >= Len(rows) THEN rows ELSE SubSeq(rows, 1, n + 1)

\* LIMIT n ; a negative n is no limit in SQLite
Limit(rows, n) ==
    IF n < 0 \/ n >= Len(rows) THEN rows ELSE SubSeq(rows, 1, n)

----------------------------------------------------------------------------
(* latest_articles, from cur.execute on: the query and the row mapping *)

ValidOf(categories) ==
    LET cats == IF categories = <<>> THEN AllCategories ELSE categories
        low  == [i \in 1..Len(cats) |-> lower(cats[i])]
    IN  SelectSeq(low, LAMBDA c : c \in VALID_CATEGORIES)

\* slip: the comparison the wrong way round
ArticleMatchesOlder(r, t, valid, hours) ==
    /\ TextGE(datetime(t - hours), r.published_at)
    /\ (valid # <<>> => SqlIn(r.category, valid))

ArticleMatches(r, t, valid, hours) ==
    /\ TextGE(r.published_at, datetime(t - hours))
    /\ (valid # <<>> => SqlIn(r.category, valid))

ArticleDict(r) ==
    [title |-> r.title, url |-> r.url, source |-> r.source_name,
     category |-> r.category, published_at |-> r.published_at]

latest_articles(d, t, categories, hours, limit) ==
    IF "articles" \notin d.tables
    THEN [status |-> "OperationalError", rows |-> <<>>]
    ELSE LET valid == ValidOf(categories)
             hit   == SelectSeq(d.articles,
                                LAMBDA r : ArticleMatches(r, t, valid, hours))
             rows  == Limit(OrderByPublishedDesc(hit), limit)
         IN  [status |-> "ok",
              rows |-> [i \in 1..Len(rows) |-> ArticleDict(rows[i])]]

----------------------------------------------------------------------------
(* latest_videos.  The optional channel is <<>> for None, <<s>> for s. *)

None == <<>>

\* Python truth value of an Optional[str]
Truthy(channel) == channel # None /\ channel[1] # ""

\* slip: the channel compared without regard to case
VideoMatchesAnyCase(r, t, channel, hours) ==
    LET fold(s) == IF s = "Bloomberg" THEN "bloomberg" ELSE s
    IN  /\ TextGE(r.published_at, datetime(t - hours))
        /\ (Truthy(channel) => fold(r.channel_name) = fold(channel[1]))

VideoMatches(r, t, channel, hours) ==
    /\ TextGE(r.published_at, datetime(t - hours))
    /\ (Truthy(channel) => r.channel_name = channel[1])

VideoDict(r) ==
    [title |-> r.title, url |-> r.url, channel |-> r.channel_name,
     published_at |-> r.published_at]

latest_videos(d, t, hours, limit, channel) ==
    IF "videos" \notin d.tables
    THEN [status |-> "OperationalError", rows |-> <<>>]
    ELSE LET hit  == SelectSeq(d.videos,
                               LAMBDA r : VideoMatches(r, t, channel, hours))
             rows == Limit(OrderByPublishedDesc(hit), limit)
         IN  [status |-> "ok",
              rows |-> [i \in 1..Len(rows) |-> VideoDict(rows[i])]]

----------------------------------------------------------------------------
(* Snapshots and arguments tried *)

StartTime == 100
Nows == {StartTime, StartTime + 22}
PublishedTimes == {StartTime - 50, StartTime - 26, StartTime - 24, StartTime - 2}
RowCategories == {"tech", "politics", NULL}
RowChannels == {"Bloomberg", "bloomberg", ""}

Hours == {0, 24, 72}
Limits == -1..MaxLimit
CategoryLists ==
    {<<>>, <<"tech">>, <<"sports">>, <<"TECH">>, <<"tech", "sports">>,
     <<"Politics", "tech">>, <<"sports", "gossip">>, AllCategories}
Channels == {None, <<"">>, <<"Bloomberg">>, <<"bloomberg">>}

ArticleTable(f) ==
    [i \in DOMAIN f |->
        [title |-> i, url |-> i, source_name |-> "src",
         category |-> f[i][1], published_at |-> datetime(f[i][2])]]

VideoTable(f) ==
    [i \in DOMAIN f |->
        [title |-> i, url |-> i, channel_name |-> f[i][1],
         published_at |-> datetime(f[i][2])]]

Cells(S) == UNION {[1..n -> S \X PublishedTimes] : n \in 0..MaxRows}

EmptyFile == [tables |-> {}, articles |-> <<>>, videos |-> <<>>]

Snapshots ==
    {[tables |-> {"articles", "videos"}, articles |-> ArticleTable(f), videos |-> <<>>] :
        f \in Cells(RowCategories)}
    \cup
    {[tables |-> {"articles", "videos"}, articles |-> <<>>, videos |-> VideoTable(f)] :
        f \in Cells(RowChannels)}
    \cup {EmptyFile}

ArticleCalls ==
    [tool : {"latest_articles"}, categories : CategoryLists,
     hours : Hours, limit : Limits]

VideoCalls ==
    [tool : {"latest_videos"}, hours : Hours, limit : Limits, channel : Channels]

\* what the tool's query yields on database d at time t
Query(d, t, c) ==
    IF c.tool = "latest_articles"
    THEN latest_articles(d, t, c.categories, c.hours, c.limit)
    ELSE latest_videos(d, t, c.hours, c.limit, c.channel)

----------------------------------------------------------------------------
(* Spec: concurrent invocations against a changing remote *)

Workers == 1..NumWorkers
FileNames == 1..MaxFiles

Body1 ==
    [tables |-> {"articles", "videos"},
     articles |-> ArticleTable(<<<<"tech", StartTime - 2>>>>),
     videos |-> VideoTable(<<<<"Bloomberg", StartTime - 2>>>>)]
Body2 ==
    [tables |-> {"articles", "videos"},
     articles |-> ArticleTable(<<<<"politics", StartTime - 24>>, <<"tech", StartTime - 2>>>>),
     videos |-> VideoTable(<<<<"bloomberg", StartTime - 24>>, <<"Bloomberg", StartTime - 26>>>>)]

Bodies == {Body1, Body2, EmptyFile}
FetchErrors == {"HTTPError", "ConnectionError"}

\* the answer to a GET: a snapshot, an error status, or no answer at all
RemoteStates ==
    [status : {"200"}, body : Bodies]
    \cup [status : {"404", "transport"}, body : {EmptyFile}]

SysCalls ==
    {[tool |-> "latest_articles", categories |-> <<"tech", "politics">>,
      hours |-> 24, limit |-> MaxLimit],
     [tool |-> "latest_videos", hours |-> 24, limit |-> MaxLimit, channel |-> None]}

NoCall == [tool |-> "none"]

\* a worker between invocations; out is how its last invocation ended
Idle(out) ==
    [pc |-> "idle", call |-> NoCall, file |-> 0, body |-> EmptyFile,
     out |-> out, rows |-> <<>>]

Init ==
    /\ db = EmptyFile
    /\ call = NoCall
    /\ now = StartTime
    /\ remote \in RemoteStates
    /\ files = <<>>
    /\ conns = {}
    /\ inv = [p \in Workers |-> Idle("none")]
    /\ fetched = 0

\* the producer replaces the snapshot, or the server starts or stops answering
RemoteChange ==
    /\ \E r \in RemoteStates \ {remote} : remote' = r
    /\ UNCHANGED <<db, now, call, files, conns, inv, fetched>>

\* slip: one fixed path for the downloaded file
FixedTempFile == CHOOSE name \in FileNames : TRUE

\* tempfile.NamedTemporaryFile(delete=False): a name no file of the directory has
NamedTemporaryFile == CHOOSE name \in FileNames : name \notin DOMAIN files

\* open_latest_db, the GET answered 200: body to a new file, connection opened
OpenOk(p, c) ==
    /\ inv[p].pc = "idle"
    /\ remote.status = "200"
    /\ fetched < MaxFiles
    /\ LET name == NamedTemporaryFile
       IN  /\ files' = [n \in DOMAIN files \cup {name} |->
                           IF n = name THEN remote.body ELSE files[n]]
           /\ conns' = conns \cup {[worker |-> p, file |-> name]}
           /\ inv' = [inv EXCEPT ![p] =
                        [@ EXCEPT !.pc = "opened", !.call = c, !.file = name,
                                  !.body = remote.body]]
    /\ fetched' = fetched + 1
    /\ UNCHANGED <<db, now, call, remote>>

\* slip: the body is written to the temporary file before the status is checked
OpenFailAfterWrite(p, c) ==
    /\ inv[p].pc = "idle"
    /\ remote.status # "200"
    /\ fetched < MaxFiles
    /\ files' = [n \in DOMAIN files \cup {NamedTemporaryFile} |->
                    IF n = NamedTemporaryFile THEN remote.body ELSE files[n]]
    /\ inv' = [inv EXCEPT ![p] =
                 Idle(IF remote.status = "404" THEN "HTTPError"
                      ELSE "ConnectionError")]
    /\ UNCHANGED <<db, now, call, remote, conns, fetched>>

\* open_latest_db, the GET raised or raise_for_status raised: the tool raises
OpenFail(p, c) ==
    /\ inv[p].pc = "idle"
    /\ remote.status # "200"
    /\ inv' = [inv EXCEPT ![p] =
                 Idle(IF remote.status = "404" THEN "HTTPError"
                      ELSE "ConnectionError")]
    /\ UNCHANGED <<db, now, call, remote, files, conns, fetched>>

\* cur.execute and cur.fetchall on the invocation's connection; a missing
\* table raises out of the tool
Execute(p) ==
    /\ inv[p].pc = "opened"
    /\ LET r == Query(files[inv[p].file], now, inv[p].call)
       IN  inv' = [inv EXCEPT ![p] =
                     IF r.status = "ok"
                     THEN [@ EXCEPT !.pc = "fetched", !.rows = r.rows]
                     ELSE Idle(r.status)]
    /\ UNCHANGED <<db, now, call, remote, files, conns, fetched>>

\* slip: the temporary file is removed when the connection is closed
CloseReturnUnlink(p) ==
    /\ inv[p].pc = "fetched"
    /\ conns' = conns \ {[worker |-> p, file |-> inv[p].file]}
    /\ files' = [n \in DOMAIN files \ {inv[p].file} |-> files[n]]
    /\ inv' = [inv EXCEPT ![p] = Idle("ok")]
    /\ UNCHANGED <<db, now, call, remote, fetched>>

\* conn.close() and the return of the row dictionaries
CloseReturn(p) ==
    /\ inv[p].pc = "fetched"
    /\ conns' = conns \ {[worker |-> p, file |-> inv[p].file]}
    /\ inv' = [inv EXCEPT ![p] = Idle("ok")]
    /\ UNCHANGED <<db, now, call, remote, files, fetched>>

Next ==
    \/ RemoteChange
    \/ \E p \in Workers, c \in SysCalls : OpenOk(p, c)
    \/ \E p \in Workers, c \in SysCalls : OpenFail(p, c)
    \/ \E p \in Workers : Execute(p)
    \/ \E p \in Workers : CloseReturn(p)

Spec == Init /\ [][Next]_vars

----------------------------------------------------------------------------
(* QSpec: one connection on a snapshot, the two tools called on it *)

QInit ==
    /\ db \in Snapshots
    /\ now \in Nows
    /\ call = NoCall
    /\ remote = [status |-> "200", body |-> EmptyFile]
    /\ files = <<>>
    /\ conns = {}
    /\ inv = [p \in Workers |-> Idle("none")]
    /\ fetched = 0

CallArticles(c) ==
    /\ call = NoCall
    /\ LET r == latest_articles(db, now, c.categories, c.hours, c.limit)
       IN  call' = [tool |-> c.tool, args |-> c, status |-> r.status, rows |-> r.rows]
    /\ UNCHANGED <<db, now, remote, files, conns, inv, fetched>>

CallVideos(c) ==
    /\ call = NoCall
    /\ LET r == latest_videos(db, now, c.hours, c.limit, c.channel)
       IN  call' = [tool |-> c.tool, args |-> c, status |-> r.status, rows |-> r.rows]
    /\ UNCHANGED <<db, now, remote, files, conns, inv, fetched>>

QNext ==
    \/ \E c \in ArticleCalls : CallArticles(c)
    \/ \E c \in VideoCalls : CallVideos(c)

QSpec == QInit /\ [][QNext]_vars

----------------------------------------------------------------------------
(* Vocabulary of the properties *)

\* the instant a datetime text denotes
Instant(text) == text[1] * 24 + text[2]

Urls(rows) == {rows[i].url : i \in 1..Len(rows)}

Returned(tool) == call.tool = tool /\ call.status = "ok"

\* the last call repeated with no limit
Unlimited == Query(db, now, [call.args EXCEPT !.limit = -1]).rows

NotInFixedSet(categories) ==
    \A i \in 1..Len(categories) : categories[i] \notin VALID_CATEGORIES

\* the rows of the queried table the call's category or channel filter lets through
Filtered ==
    IF call.tool = "latest_articles"
    THEN LET valid == ValidOf(call.args.categories)
         IN  {r \in {db.articles[i] : i \in 1..Len(db.articles)} :
                 valid # <<>> => SqlIn(r.category, valid)}
    ELSE {r \in {db.videos[i] : i \in 1..Len(db.videos)} :
             Truthy(call.args.channel) => r.channel_name = call.args.channel[1]}

InWindow(r) == Instant(r.published_at) >= now - call.args.hours

----------------------------------------------------------------------------
(* Properties of the queries, under QSpec *)

\* C1 (as claimed): latest_articles with an empty category list, or with a
\* list whose every value is outside the fixed set, returns the same records
\* as latest_articles with all six valid categories.
C1_EmptyOrInvalidIsAllSix ==
    (Returned("latest_articles") /\ NotInFixedSet(call.args.categories))
    => call.rows = latest_articles(db, now, AllCategories,
                                   call.args.hours, call.args.limit).rows

\* C2: with a limit N >= 0 both tools return at most N records, and none
\* with limit 0.
C2_AtMostLimit ==
    (call.tool # "none" /\ call.args.limit >= 0)
    => /\ Len(call.rows) <= call.args.limit
       /\ (call.args.limit = 0 => call.rows = <<>>)

C2_Witness ==
    /\ call.tool # "none"
    /\ call.args.limit = 1
    /\ Len(call.rows) = 1
    /\ Len(Unlimited) = 2

\* C3: the returned sequence is in descending order of published instant, and
\* no matching record left out by the limit is more recent than a returned one.
C3_NewestFirst ==
    (call.tool # "none" /\ call.status = "ok")
    => /\ \A i \in 1..Len(call.rows) : \A j \in i..Len(call.rows) :
            Instant(call.rows[i].published_at) >= Instant(call.rows[j].published_at)
       /\ \A i \in 1..Len(Unlimited) :
            Unlimited[i].url \notin Urls(call.rows)
            => \A j \in 1..Len(call.rows) :
                 Instant(call.rows[j].published_at) >= Instant(Unlimited[i].published_at)

\* the table holds the older row first; the limit keeps only the newer one
C3_Witness ==
    /\ Returned("latest_articles")
    /\ call.args.limit = 1
    /\ Len(Unlimited) = 2
    /\ Len(call.rows) = 1
    /\ call.rows[1].url = 2
    /\ Instant(db.articles[1].published_at) < Instant(db.articles[2].published_at)

C5_WiderWindowSuperset ==
    Returned("latest_articles")
    => \A h2 \in Hours :
         LET wider == latest_articles(db, now, call.args.categories,
                                      h2, call.args.limit).rows
         IN  (h2 > call.args.hours
              /\ (call.args.limit < 0 \/ Len(wider) < call.args.limit))
             => Urls(call.rows) \subseteq Urls(wider)

C5_Witness ==
    /\ Returned("latest_articles")
    /\ call.args.hours = 24
    /\ call.args.limit = MaxLimit
    /\ Len(call.rows) = 1
    /\ Len(latest_articles(db, now, call.args.categories, 72,
                           call.args.limit).rows) = 2

\* C7 (as claimed): whenever a channel value is provided, the empty string
\* included, every returned video has exactly that channel name.
C7_AnyProvidedChannelRestricts ==
    (Returned("latest_videos") /\ call.args.channel # None)
    => \A i \in 1..Len(call.rows) : call.rows[i].channel = call.args.channel[1]

\* C7 (amended): whenever a non-empty channel value is provided, every
\* returned video has exactly that channel name, case-sensitively; when the
\* channel is omitted or is the empty string there is no channel restriction.
C7_NonEmptyChannelRestricts ==
    Returned("latest_videos")
    => IF call.args.channel # None /\ call.args.channel[1] # ""
       THEN \A i \in 1..Len(call.rows) :
                call.rows[i].channel = call.args.channel[1]
       ELSE Len(call.rows) < call.args.limit
            => Urls(call.rows) =
                 {db.videos[i].url : i \in {k \in 1..Len(db.videos) :
                                              InWindow(db.videos[k])}}

\* both spellings are in the window; only the one asked for is returned
C7_Witness ==
    /\ Returned("latest_videos")
    /\ call.args.channel = <<"Bloomberg">>
    /\ call.args.hours = 72
    /\ {db.videos[i].channel_name : i \in 1..Len(db.videos)}
         = {"Bloomberg", "bloomberg"}
    /\ Len(call.rows) = 1
    /\ call.rows[1].channel = "Bloomberg"

----------------------------------------------------------------------------
(* Properties of the invocations, under Spec *)

Running(p) == inv[p].pc \in {"opened", "fetched"}

\* C6: an invocation whose GET does not answer 200 ends there with a fetch
\* error, without a query, changing nothing another invocation can see; and
\* an invocation that gets a connection got it from its own GET of the remote
\* as it is now, whatever happened before.
C6_FailedFetchLeavesNoTrace ==
    [][\A p \in Workers :
         /\ (inv[p].pc = "idle" /\ inv'[p] # inv[p] /\ remote.status # "200")
            => /\ inv'[p].pc = "idle"
               /\ inv'[p].out \in FetchErrors
               /\ inv'[p].rows = <<>>
               /\ UNCHANGED <<remote, files, conns, fetched>>
               /\ \A q \in Workers \ {p} : inv'[q] = inv[q]
         /\ (inv[p].pc = "idle" /\ inv'[p].pc = "opened")
            => /\ remote.status = "200"
               /\ inv'[p].body = remote.body
               /\ files'[inv'[p].file] = remote.body]_vars

\* the worker's last invocation failed to fetch; this one fetched and got rows
C6_Witness ==
    \E p \in Workers :
        /\ inv[p].out \in FetchErrors
        /\ inv[p].pc = "fetched"
        /\ inv[p].rows # <<>>

\* C8: the records of an invocation are those of the snapshot version it
\* fetched itself, its file holds that version, and no two connections are
\* on the same temporary file.
C8_OwnSnapshot ==
    /\ \A p \in Workers :
         Running(p) => /\ inv[p].file \in DOMAIN files
                       /\ files[inv[p].file] = inv[p].body
    /\ \A p \in Workers :
         inv[p].pc = "fetched"
         => inv[p].rows = Query(inv[p].body, now, inv[p].call).rows
    /\ \A c1, c2 \in conns : c1.file = c2.file => c1 = c2

\* two invocations in flight on two versions, each with its own records
C8_Witness ==
    \E p, q \in Workers :
        /\ inv[p].pc = "fetched" /\ inv[q].pc = "fetched"
        /\ inv[p].call = inv[q].call
        /\ inv[p].body # inv[q].body
        /\ inv[p].rows # inv[q].rows

\* C9 (as claimed): an invocation that is over has left no connection open.
C9_NoConnectionLeftOpen ==
    \A p \in Workers :
        inv[p].pc = "idle" => \A c \in conns : c.worker # p

\* C10: there are as many temporary files as successful fetches; a
\* successful fetch adds exactly one file, every other step leaves the
\* directory as it is.
C10_OneFilePerSuccessfulFetch ==
    /\ [](Cardinality(DOMAIN files) = fetched)
    /\ [][/\ DOMAIN files \subseteq DOMAIN files'
          /\ Cardinality(DOMAIN files') - Cardinality(DOMAIN files)
               = fetched' - fetched
          /\ fetched' - fetched \in {0, 1}]_vars

\* one fetch failed, two succeeded and were closed: two files remain
C10_Witness ==
    /\ fetched = 2
    /\ Cardinality(DOMAIN files) = 2
    /\ conns = {}
    /\ \E p \in Workers : inv[p].out \in FetchErrors

====
